---- MODULE Spec2Model ----
(***************************************************************************)
(* Model of the multi-backend database layer of the Laju framework:        *)
(*   knexfile.ts            the connection config resolver                 *)
(*   app/services/DB.ts     the query-builder (Knex) service               *)
(*   app/services/SQLite.ts the native embedded-engine service             *)
(* A JavaScript string is a TLA+ string; process.env.X === undefined is    *)
(* the value Unset.  A JavaScript number is a record [nan, val] so that    *)
(* the NaN parseInt produces is a value of the model.                      *)
(***************************************************************************)
EXTENDS Integers, Sequences, FiniteSets, TLC

VARIABLES
    env,          \* process.env, the eleven variables the layer consumes
    knexfile,     \* "unloaded" | "loaded": has the knexfile module been evaluated
    DB_CLIENT,    \* knexfile: const DB_CLIENT
    config,       \* knexfile: const config, stage name -> descriptor
    requested,    \* the result of the last config[stage] lookup by a caller
    dbModule,     \* DB.ts: "unloaded" | "loaded" | "failed" (its evaluation threw)
    instances,    \* every Knex instance DBInstance() has built, in creation order
    DB,           \* DB.ts: the exported default instance (index into instances, 0 = none)
    warnings,     \* number of console.warn calls made by applyDatabaseOptimizations
    lastCall,     \* outcome of the last DB.connection(stage) call
    svcModule,    \* SQLite.ts: "unloaded" | "loaded" | "failed" (its evaluation threw)
    connectionType, \* SQLite.ts: const connectionType
    clientType,   \* SQLite.ts: const clientType
    SQLiteService, \* SQLite.ts: the exported service object
    nativeDb,     \* SQLite.ts: the better-sqlite3 handle opened by the service
    dbFile,       \* the contents of the database file behind nativeDb
    statementCache, \* SQLite.ts: statementCache, SQL text -> compiled statement
    prepareCalls, \* per SQL text: the nativeDb.prepare(sql) calls made (calls) and
                  \* whether the first of them compiled the text (firstOk)
    errorLog,     \* number of console.error calls made by get, all and run
    lastOp        \* outcome of the last call made on the exported service

cfgVars == <<knexfile, DB_CLIENT, config>>
dbVars == <<dbModule, instances, DB, warnings, lastCall>>
svcVars == <<svcModule, connectionType, clientType, SQLiteService, nativeDb,
             dbFile, statementCache, prepareCalls, errorLog, lastOp>>

vars == <<env, cfgVars, requested, dbVars, svcVars>>

----------------------------------------------------------------------------
(* JavaScript values *)

Unset == "<unset>"

\* The truthiness of a string-or-undefined value: undefined and "" are falsy.
Truthy(v) == v /= Unset /\ v /= ""

\* a || b on a string-or-undefined left operand
OrElse(v, d) == IF Truthy(v) THEN v ELSE d

Num(n) == [nan |-> FALSE, val |-> n]
NaN == [nan |-> TRUE, val |-> 0]

\* The characters of the strings that reach parseInt in this model.
Chars(s) ==
    CASE s = "0"     -> <<"0">>
      [] s = "2"     -> <<"2">>
      [] s = "10"    -> <<"1", "0">>
      [] s = "20"    -> <<"2", "0">>
      [] s = "3306"  -> <<"3", "3", "0", "6">>
      [] s = "5432"  -> <<"5", "4", "3", "2">>
      [] s = "6543"  -> <<"6", "5", "4", "3">>
      [] s = "5x"    -> <<"5", "x">>
      [] s = "max"   -> <<"m", "a", "x">>
      [] s = " 7"    -> <<" ", "7">>
      [] s = "-1"    -> <<"-", "1">>

DigitValue(c) ==
    CASE c = "0" -> 0 [] c = "1" -> 1 [] c = "2" -> 2 [] c = "3" -> 3
      [] c = "4" -> 4 [] c = "5" -> 5 [] c = "6" -> 6 [] c = "7" -> 7
      [] c = "8" -> 8 [] c = "9" -> 9

IsDigit(c) == c \in {"0", "1", "2", "3", "4", "5", "6", "7", "8", "9"}

RECURSIVE SkipSpace(_)
SkipSpace(cs) ==
    IF cs /= <<>> /\ Head(cs) = " " THEN SkipSpace(Tail(cs)) ELSE cs

\* The value of the longest prefix of digits of cs, given the value acc and
\* the count seen of the digits already consumed.
RECURSIVE DigitPrefix(_, _, _)
DigitPrefix(cs, acc, seen) ==
    IF cs /= <<>> /\ IsDigit(Head(cs))
    THEN DigitPrefix(Tail(cs), acc * 10 + DigitValue(Head(cs)), seen + 1)
    ELSE [val |-> acc, seen |-> seen]

\* parseInt(s) in radix 10: leading blanks are skipped, one sign is read,
\* then the longest run of digits; NaN when there is no digit.
parseInt(s) ==
    LET body == SkipSpace(Chars(s))
        neg == body /= <<>> /\ Head(body) = "-"
        signed == body /= <<>> /\ Head(body) \in {"-", "+"}
        digits == IF signed THEN Tail(body) ELSE body
        r == DigitPrefix(digits, 0, 0)
    IN  IF r.seen = 0 THEN NaN
        ELSE Num(IF neg THEN 0 - r.val ELSE r.val)

----------------------------------------------------------------------------
(* knexfile.ts *)

SQLiteNames == {"better-sqlite3", "sqlite3"}

\* const DB_CLIENT = process.env.DB_CLIENT || "better-sqlite3"
ReadDbClient(e) == OrElse(e.DB_CLIENT, "better-sqlite3")

\* A resolver that lets a DB_HOST override the connection string.
buildConnectionConfig_HostFirst(client, e) ==
    IF client \in {"pg", "postgresql"}
    THEN IF Truthy(e.DATABASE_URL) /\ ~Truthy(e.DB_HOST)
         THEN [type |-> "string", value |-> e.DATABASE_URL]
         ELSE [type |-> "object",
               host |-> OrElse(e.DB_HOST, "127.0.0.1"),
               port |-> parseInt(OrElse(e.DB_PORT, "5432")),
               user |-> OrElse(e.DB_USER, "postgres"),
               password |-> OrElse(e.DB_PASSWORD, ""),
               database |-> OrElse(e.DB_NAME, "laju")]
    ELSE IF client \in {"mysql", "mysql2"}
    THEN [type |-> "object",
          host |-> OrElse(e.DB_HOST, "127.0.0.1"),
          port |-> parseInt(OrElse(e.DB_PORT, "3306")),
          user |-> OrElse(e.DB_USER, "root"),
          password |-> OrElse(e.DB_PASSWORD, ""),
          database |-> OrElse(e.DB_NAME, "laju")]
    ELSE [type |-> "object",
          filename |-> OrElse(e.DB_FILENAME, "./data/dev.sqlite3")]

buildConnectionConfig(client, e) ==
    IF client \in {"pg", "postgresql"}
    THEN IF Truthy(e.DATABASE_URL)
         THEN [type |-> "string", value |-> e.DATABASE_URL]
         ELSE [type |-> "object",
               host |-> OrElse(e.DB_HOST, "127.0.0.1"),
               port |-> parseInt(OrElse(e.DB_PORT, "5432")),
               user |-> OrElse(e.DB_USER, "postgres"),
               password |-> OrElse(e.DB_PASSWORD, ""),
               database |-> OrElse(e.DB_NAME, "laju")]
    ELSE IF client \in {"mysql", "mysql2"}
    THEN [type |-> "object",
          host |-> OrElse(e.DB_HOST, "127.0.0.1"),
          port |-> parseInt(OrElse(e.DB_PORT, "3306")),
          user |-> OrElse(e.DB_USER, "root"),
          password |-> OrElse(e.DB_PASSWORD, ""),
          database |-> OrElse(e.DB_NAME, "laju")]
    ELSE [type |-> "object",
          filename |-> OrElse(e.DB_FILENAME, "./data/dev.sqlite3")]

\* A pool builder that never reads DB_POOL_MIN and DB_POOL_MAX.
buildPoolConfig_Defaults(client, e) ==
    IF client = "better-sqlite3" \/ client = "sqlite3"
    THEN [min |-> Num(1), max |-> Num(1)]
    ELSE [min |-> Num(0), max |-> Num(10),
          acquireTimeoutMillis |-> 30000,
          idleTimeoutMillis |-> 30000]

buildPoolConfig(client, e) ==
    IF client = "better-sqlite3" \/ client = "sqlite3"
    THEN [min |-> Num(1), max |-> Num(1)]
    ELSE [min |-> parseInt(OrElse(e.DB_POOL_MIN, "0")),
          max |-> parseInt(OrElse(e.DB_POOL_MAX, "10")),
          acquireTimeoutMillis |-> 30000,
          idleTimeoutMillis |-> 30000]

isSQLite(client) == client = "better-sqlite3" \/ client = "sqlite3"

\* A resolver that forgets the aliases: only the canonical names are cases.
getClientName_NoAlias(client) ==
    IF client = "pg" THEN "pg"
    ELSE IF client = "mysql2" THEN "mysql2"
    ELSE "better-sqlite3"

getClientName(client) ==
    IF client \in {"pg", "postgresql"} THEN "pg"
    ELSE IF client \in {"mysql", "mysql2"} THEN "mysql2"
    ELSE "better-sqlite3"

\* The descriptor of the development and of the production stage.
EnvStage(client, e) ==
    [client |-> getClientName(client),
     connection |-> buildConnectionConfig(client, e),
     pool |-> buildPoolConfig(client, e),
     useNullAsDefault |-> isSQLite(client),
     migrations |-> "./migrations"]

\* A test stage that follows the environment like the other two.
TestStage_FromEnv(client, e) == EnvStage(client, e)

\* The descriptor of the test stage: it has no pool key.
TestStage(client, e) ==
    [client |-> "better-sqlite3",
     connection |-> [type |-> "object", filename |-> "./data/test.sqlite3"],
     useNullAsDefault |-> TRUE,
     migrations |-> "./migrations"]

StageNames == {"development", "production", "test"}

BuildConfig(client, e) ==
    [s \in StageNames |->
        IF s = "test" THEN TestStage(client, e) ELSE EnvStage(client, e)]

\* config[key]: undefined for a key that is no stage, which includes the
\* key "undefined" an absent variable is converted to.
Undefined == [undefined |-> TRUE]

Lookup(cfg, key) == IF key \in DOMAIN cfg THEN cfg[key] ELSE Undefined

\* connectionConfig?.client
ClientOf(d) == IF d = Undefined THEN Unset ELSE d.client

----------------------------------------------------------------------------
(* The environments the model starts from *)

ClientTokens ==
    {Unset, "", "pg", "postgresql", "mysql", "mysql2", "better-sqlite3",
     "sqlite3", "oracledb"}

NoEnv ==
    [DB_CLIENT |-> Unset, DATABASE_URL |-> Unset, DB_HOST |-> Unset,
     DB_PORT |-> Unset, DB_USER |-> Unset, DB_PASSWORD |-> Unset,
     DB_NAME |-> Unset, DB_FILENAME |-> Unset, DB_POOL_MIN |-> Unset,
     DB_POOL_MAX |-> Unset, DB_CONNECTION |-> Unset]

FullEnvs ==
    [DB_CLIENT : ClientTokens,
     DATABASE_URL : {Unset, "", "postgres://app@db.example/prod"},
     DB_HOST : {Unset, "db.internal"},
     DB_PORT : {Unset, "6543", "5x"},
     DB_USER : {Unset, "app"},
     DB_PASSWORD : {Unset, "s3cret"},
     DB_NAME : {Unset, "shop"},
     DB_FILENAME : {Unset, "./data/app.sqlite3"},
     DB_POOL_MIN : {Unset, "2", "max"},
     DB_POOL_MAX : {Unset, "20", " 7"},
     DB_CONNECTION : {Unset}]

----------------------------------------------------------------------------
(* The resolver on its own: SpecConfig *)

NoCall == [op |-> "none"]

NoService == [kind |-> "none"]
NoDb == [open |-> FALSE]
NoStmt == [sql |-> "", serial |-> 0, by |-> ""]
NoValue == [kind |-> "none"]
NoError == [kind |-> "none"]
NoOp == [op |-> "none", sql |-> "", outcome |-> "none", value |-> NoValue,
         error |-> NoError, stmt |-> NoStmt]
EmptyFile == [exists |-> FALSE, rows |-> {}]

InitCommon ==
    /\ knexfile = "unloaded"
    /\ DB_CLIENT = Unset
    /\ config = [s \in {} |-> Undefined]
    /\ requested = [stage |-> Unset, descriptor |-> Undefined]
    /\ dbModule = "unloaded"
    /\ instances = <<>>
    /\ DB = 0
    /\ warnings = 0
    /\ lastCall = NoCall
    /\ svcModule = "unloaded"
    /\ connectionType = Unset
    /\ clientType = Unset
    /\ SQLiteService = NoService
    /\ nativeDb = NoDb
    /\ dbFile = EmptyFile
    /\ statementCache = [t \in {} |-> NoStmt]
    /\ prepareCalls = [t \in {} |-> [calls |-> 0, firstOk |-> FALSE]]
    /\ errorLog = 0
    /\ lastOp = NoOp

InitConfig ==
    /\ env \in FullEnvs
    /\ InitCommon

\* The first import of the knexfile evaluates it: DB_CLIENT and config are
\* module constants computed once from the environment of that moment.
LoadKnexfile ==
    /\ knexfile = "unloaded"
    /\ knexfile' = "loaded"
    /\ DB_CLIENT' = ReadDbClient(env)
    /\ config' = BuildConfig(ReadDbClient(env), env)
    /\ UNCHANGED <<env, requested, dbVars, svcVars>>

\* A caller reads config[stage].
RequestStage(stage) ==
    /\ knexfile = "loaded"
    /\ requested' = [stage |-> stage, descriptor |-> Lookup(config, stage)]
    /\ UNCHANGED <<env, cfgVars, dbVars, svcVars>>

NextConfig ==
    \/ LoadKnexfile
    \/ \E stage \in StageNames \cup {"staging"} : RequestStage(stage)

SpecConfig == InitConfig /\ [][NextConfig]_vars

----------------------------------------------------------------------------
(* Claims about the resolver *)

EnvStages == {"development", "production"}

\* C1: for every DB_CLIENT token the client of the development and of the
\* production stage is one of pg, mysql2, better-sqlite3: pg and postgresql
\* give pg, mysql and mysql2 give mysql2, every other token, the empty one
\* and the absent one give better-sqlite3; the resolver produces a
\* descriptor for every token.
C1_ClientResolution ==
    knexfile = "loaded" =>
        \A s \in EnvStages :
            /\ s \in DOMAIN config
            /\ config[s].client \in {"pg", "mysql2", "better-sqlite3"}
            /\ (env.DB_CLIENT \in {"pg", "postgresql"}
                    <=> config[s].client = "pg")
            /\ (env.DB_CLIENT \in {"mysql", "mysql2"}
                    <=> config[s].client = "mysql2")
            /\ (env.DB_CLIENT \in {"better-sqlite3", "sqlite3", "oracledb", "", Unset}
                    <=> config[s].client = "better-sqlite3")

C1_Witness ==
    /\ knexfile = "loaded"
    /\ env.DB_CLIENT = "postgresql"
    /\ requested.stage = "production"
    /\ requested.descriptor.client = "pg"

\* C2: with DB_CLIENT pg or postgresql and a DATABASE_URL that is set (to a
\* non-empty string, the only kind of value the resolver's || tests take as
\* set), the connection of the development and production stages is that
\* string itself, whatever DB_HOST, DB_PORT, DB_USER, DB_PASSWORD and
\* DB_NAME are.
C2_ConnectionStringWins ==
    (knexfile = "loaded" /\ env.DB_CLIENT \in {"pg", "postgresql"}
        /\ Truthy(env.DATABASE_URL)) =>
        \A s \in EnvStages :
            config[s].connection = [type |-> "string", value |-> env.DATABASE_URL]

C2_Witness ==
    /\ knexfile = "loaded"
    /\ env.DB_CLIENT = "pg"
    /\ env.DATABASE_URL = "postgres://app@db.example/prod"
    /\ env.DB_HOST = "db.internal" /\ env.DB_PORT = "6543"
    /\ env.DB_USER = "app" /\ env.DB_PASSWORD = "s3cret" /\ env.DB_NAME = "shop"
    /\ requested.stage = "development"
    /\ requested.descriptor.connection.type = "string"

\* C3: every stage descriptor whose client is the embedded engine has pool
\* bounds min = 1 and max = 1, whatever DB_POOL_MIN and DB_POOL_MAX are.
\* (A descriptor without a pool key leaves the bounds to the driver and is
\* not counted against the statement.)
C3_EmbeddedPoolPinned ==
    knexfile = "loaded" =>
        \A s \in DOMAIN config :
            (config[s].client \in SQLiteNames /\ "pool" \in DOMAIN config[s]) =>
                config[s].pool.min = Num(1) /\ config[s].pool.max = Num(1)

\* C4: the test stage is the embedded engine at ./data/test.sqlite3 for
\* every environment.
C4_TestStageFixed ==
    knexfile = "loaded" =>
        /\ "test" \in DOMAIN config
        /\ config["test"].client = "better-sqlite3"
        /\ config["test"].connection =
               [type |-> "object", filename |-> "./data/test.sqlite3"]

C4_Witness ==
    /\ knexfile = "loaded"
    /\ env.DB_CLIENT = "pg"
    /\ Truthy(env.DATABASE_URL)
    /\ env.DB_FILENAME = "./data/app.sqlite3"
    /\ requested.stage = "test"
    /\ requested.descriptor.client = "better-sqlite3"
    /\ requested.descriptor.connection.filename = "./data/test.sqlite3"

----------------------------------------------------------------------------
(* app/services/DB.ts *)

MaxInstances == 3

MaxRawFailures == 1

Pragmas ==
    <<"PRAGMA journal_mode = WAL", "PRAGMA synchronous = NORMAL",
      "PRAGMA foreign_keys = ON", "PRAGMA busy_timeout = 5000">>

\* The raw() calls up to and including the one that throws; failAt = 0 when
\* none throws.
Issued(failAt) == IF failAt = 0 THEN Pragmas ELSE SubSeq(Pragmas, 1, failAt)

\* applyDatabaseOptimizations without its try/catch.
applyDatabaseOptimizations_NoCatch(cfg, e, failAt) ==
    IF ClientOf(Lookup(cfg, e.DB_CONNECTION)) \in SQLiteNames
    THEN [raws |-> Issued(failAt), warned |-> FALSE, threw |-> failAt /= 0]
    ELSE [raws |-> <<>>, warned |-> FALSE, threw |-> FALSE]

\* applyDatabaseOptimizations(instance): the raw() calls it makes on the
\* instance, whether it warned and whether an exception left it.  The
\* descriptor it tests is config[process.env.DB_CONNECTION] of the moment
\* of the call; failAt is the raw() call that throws, chosen by the
\* environment (0: none).
applyDatabaseOptimizations(cfg, e, failAt) ==
    IF ClientOf(Lookup(cfg, e.DB_CONNECTION)) \in SQLiteNames
    THEN [raws |-> Issued(failAt), warned |-> failAt /= 0, threw |-> FALSE]
    ELSE [raws |-> <<>>, warned |-> FALSE, threw |-> FALSE]

\* DBInstance(descriptor): a Knex instance bound to the descriptor.
NewInstance(d, opt, failAt) ==
    [client |-> d.client, connection |-> d.connection,
     raws |-> opt.raws, rawFailedAt |-> IF opt.raws = <<>> THEN 0 ELSE failAt]

\* A constructor that hands out the instance it already built for an equal
\* descriptor.
DBInstance_Memo(insts, inst) ==
    IF \E i \in DOMAIN insts : insts[i] = inst
    THEN [all |-> insts, id |-> CHOOSE i \in DOMAIN insts : insts[i] = inst]
    ELSE [all |-> Append(insts, inst), id |-> Len(insts) + 1]

\* DBInstance(config[stage]): every call constructs an instance of its own;
\* its identity is its position in the list of the instances built.
DBInstance(insts, inst) ==
    [all |-> Append(insts, inst), id |-> Len(insts) + 1]

\* The raw() calls the environment may make throw: none (0), or the k-th,
\* while fewer than MaxRawFailures calls have thrown so far.
FailChoices ==
    IF Cardinality({i \in DOMAIN instances : instances[i].rawFailedAt /= 0})
           < MaxRawFailures
    THEN 0..Len(Pragmas) ELSE {0}

\* The knexfile is evaluated by the first module that imports it.
ConfigAtImport == IF knexfile = "loaded" THEN config ELSE BuildConfig(ReadDbClient(env), env)

ClientAtImport == IF knexfile = "loaded" THEN DB_CLIENT ELSE ReadDbClient(env)

\* Evaluation of DB.ts: the default instance is built from
\* config[process.env.DB_CONNECTION] and optimized; Knex throws on an
\* undefined descriptor, which ends the evaluation of the module.
LoadDB ==
    /\ dbModule = "unloaded"
    /\ knexfile' = "loaded"
    /\ DB_CLIENT' = ClientAtImport
    /\ config' = ConfigAtImport
    /\ LET d == Lookup(ConfigAtImport, env.DB_CONNECTION) IN
        IF d = Undefined
        THEN /\ dbModule' = "failed"
             /\ UNCHANGED <<instances, DB, warnings>>
        ELSE \E failAt \in FailChoices :
             LET opt == applyDatabaseOptimizations(ConfigAtImport, env, failAt)
                 built == DBInstance(instances, NewInstance(d, opt, failAt)) IN
             /\ instances' = built.all
             /\ warnings' = warnings + (IF opt.warned THEN 1 ELSE 0)
             /\ IF opt.threw
                THEN dbModule' = "failed" /\ DB' = 0
                ELSE dbModule' = "loaded" /\ DB' = built.id
    /\ UNCHANGED <<env, requested, lastCall, svcVars>>

\* A lookup that resolves the development and production descriptors from
\* the environment of the moment of the lookup.
StageConfig_Lazy(stage) ==
    IF stage \in {"development", "production"}
    THEN EnvStage(ReadDbClient(env), env)
    ELSE Lookup(config, stage)

\* config[stage] in DB.connection: a property read of the module constant.
StageConfig(stage) == Lookup(config, stage)

\* DB.connection(stage)
connection(stage) ==
    /\ dbModule = "loaded"
    /\ Len(instances) < MaxInstances
    /\ LET d == StageConfig(stage) IN
        IF d = Undefined
        THEN /\ lastCall' = [op |-> "connection", stage |-> stage,
                             outcome |-> "threw", instance |-> 0]
             /\ UNCHANGED <<instances, warnings>>
        ELSE \E failAt \in FailChoices :
             LET opt == applyDatabaseOptimizations(config, env, failAt)
                 built == DBInstance(instances, NewInstance(d, opt, failAt)) IN
             /\ instances' = built.all
             /\ warnings' = warnings + (IF opt.warned THEN 1 ELSE 0)
             /\ lastCall' = [op |-> "connection", stage |-> stage,
                             outcome |-> IF opt.threw THEN "threw" ELSE "returned",
                             instance |-> built.id]
    /\ UNCHANGED <<env, cfgVars, requested, dbModule, DB, svcVars>>

\* process.env[name] = value while the process runs.
SetEnv(name, value) ==
    /\ env[name] /= value
    /\ env' = [env EXCEPT ![name] = value]
    /\ UNCHANGED <<cfgVars, requested, dbVars, svcVars>>

DbClientTokens == {Unset, "pg", "mysql", "oracledb"}

DbStageTokens == {Unset, "development", "test"}

InitDB ==
    /\ env \in {[NoEnv EXCEPT !.DB_CLIENT = c, !.DB_CONNECTION = s] :
                    c \in DbClientTokens, s \in DbStageTokens}
    /\ InitCommon

NextDB ==
    \/ LoadKnexfile
    \/ LoadDB
    \/ \E stage \in StageNames \cup {"staging"} : connection(stage)
    \/ \E c \in DbClientTokens : SetEnv("DB_CLIENT", c)
    \/ \E s \in DbStageTokens : SetEnv("DB_CONNECTION", s)

SpecDB == InitDB /\ [][NextDB]_vars

----------------------------------------------------------------------------
(* Claims about the query-builder service *)

\* C5: an instance opened from a postgres or mysql descriptor has had no
\* pragma issued on it, and optimizing it did not throw, whatever stage was
\* passed to connection(stage) and whatever DB_CONNECTION is.
C5_NoPragmaOnNonEmbedded ==
    /\ \A i \in DOMAIN instances :
          instances[i].client \notin SQLiteNames => instances[i].raws = <<>>
    /\ (lastCall.op = "connection" /\ lastCall.instance /= 0
          /\ instances[lastCall.instance].client \notin SQLiteNames)
            => lastCall.outcome = "returned"

\* C6: connection(stage) for a stage whose client is the embedded engine
\* returns an instance on which exactly the four settings journal_mode=WAL,
\* synchronous=NORMAL, foreign_keys=ON, busy_timeout=5000 were issued, in
\* that order, whatever DB_CONNECTION is.  (Calls in which a raw() call
\* threw are left out of the statement.)
C6_FourPragmasOnEmbedded ==
    (lastCall.op = "connection" /\ lastCall.outcome = "returned"
        /\ instances[lastCall.instance].client \in SQLiteNames
        /\ instances[lastCall.instance].rawFailedAt = 0)
      => instances[lastCall.instance].raws = Pragmas

\* C7: a raw() call that throws while the pragmas are applied is caught and
\* logged as a warning: the default instance is still created and exported,
\* and connection(stage) still returns the instance it built.
C7_PragmaFailureContained ==
    /\ \A i \in DOMAIN instances :
          instances[i].rawFailedAt /= 0 =>
            /\ warnings >= 1
            /\ dbModule = "loaded"
            /\ DB = 1
    /\ (lastCall.op = "connection" /\ lastCall.instance /= 0
          /\ instances[lastCall.instance].rawFailedAt /= 0)
            => lastCall.outcome = "returned"
    /\ warnings =
          Cardinality({i \in DOMAIN instances : instances[i].rawFailedAt /= 0})

C7_Witness ==
    /\ lastCall.op = "connection" /\ lastCall.outcome = "returned"
    /\ instances[lastCall.instance].rawFailedAt = 3
    /\ instances[lastCall.instance].raws = SubSeq(Pragmas, 1, 3)
    /\ warnings = 1

----------------------------------------------------------------------------
(* app/services/SQLite.ts *)

MaxCalls == 3

MaxTxnCalls == 2

CreateSql == "CREATE TABLE t (v INTEGER PRIMARY KEY)"
InsertSql == "INSERT INTO t (v) VALUES (?)"
SelectSql == "SELECT v FROM t"
BrokenSql == "SELEC v FROM t"

SqlTexts == {CreateSql, InsertSql, SelectSql, BrokenSql}

RowValues == {1, 2}

\* params as the caller passes it: an array, or an object whose values
\* Object.values() lists in enumeration order.
ParamInputs ==
    {[array |-> TRUE, values |-> <<>>], [array |-> TRUE, values |-> <<1>>],
     [array |-> TRUE, values |-> <<2>>], [array |-> FALSE, values |-> <<1>>]}

\* Array.isArray(params) ? params : Object.values(params)
Parameters(params) == params.values

\* Does nativeDb.prepare(sql) compile the text against the file's schema?
Compiles(sql, file) ==
    CASE sql = CreateSql -> ~file.exists
      [] sql \in {InsertSql, SelectSql} -> file.exists
      [] OTHER -> FALSE

ReturnsData(sql) == sql = SelectSql

Placeholders(sql) == IF sql = InsertSql THEN 1 ELSE 0

Min(S) == CHOOSE x \in S : \A y \in S : x <= y

\* stmt.get(...parameters), stmt.all(...parameters), stmt.run(...parameters)
\* of better-sqlite3 on the file: the call throws when the method does not
\* fit the statement, when the parameters do not fit its placeholders, and
\* when the engine rejects the step.
Execute(op, sql, parameters, file) ==
    IF (op = "run") = ReturnsData(sql)
    THEN [threw |-> TRUE, error |-> [kind |-> "TypeError"], file |-> file,
          value |-> NoValue]
    ELSE IF Len(parameters) /= Placeholders(sql)
    THEN [threw |-> TRUE, error |-> [kind |-> "RangeError"], file |-> file,
          value |-> NoValue]
    ELSE IF sql = CreateSql
    THEN IF file.exists
         THEN [threw |-> TRUE, error |-> [kind |-> "SqliteError"], file |-> file,
               value |-> NoValue]
         ELSE [threw |-> FALSE, error |-> NoError,
               file |-> [file EXCEPT !.exists = TRUE],
               value |-> [kind |-> "info", changes |-> 0, lastInsertRowid |-> 0]]
    ELSE IF sql = InsertSql
    THEN IF ~file.exists \/ parameters[1] \in file.rows
         THEN [threw |-> TRUE, error |-> [kind |-> "SqliteError"], file |-> file,
               value |-> NoValue]
         ELSE [threw |-> FALSE, error |-> NoError,
               file |-> [file EXCEPT !.rows = @ \cup {parameters[1]}],
               value |-> [kind |-> "info", changes |-> 1,
                          lastInsertRowid |-> parameters[1]]]
    ELSE IF ~file.exists
    THEN [threw |-> TRUE, error |-> [kind |-> "SqliteError"], file |-> file,
          value |-> NoValue]
    ELSE IF op = "get"
    THEN [threw |-> FALSE, error |-> NoError, file |-> file,
          value |-> IF file.rows = {} THEN [kind |-> "undefined"]
                    ELSE [kind |-> "row", v |-> Min(file.rows)]]
    ELSE [threw |-> FALSE, error |-> NoError, file |-> file,
          value |-> [kind |-> "rows", vs |-> file.rows]]

Count(log, sql) == IF sql \in DOMAIN log THEN log[sql].calls ELSE 0

\* The log of prepare calls after one more call for sql, which compiled or not.
Prepared(log, sql, ok) ==
    IF sql \in DOMAIN log
    THEN [log EXCEPT ![sql].calls = @ + 1]
    ELSE [x \in DOMAIN log \cup {sql} |->
            IF x = sql THEN [calls |-> 1, firstOk |-> ok] ELSE log[x]]

Put(f, k, v) == [x \in DOMAIN f \cup {k} |-> IF x = k THEN v ELSE f[x]]

\* A service that compiles but does not remember the compiled statement.
CacheAfter_Forget(cache, sql, stmt) == cache

\* statementCache[sql] = stmt
CacheAfter(cache, sql, stmt) == Put(cache, sql, stmt)

\* The state of the available service that get, all and run work on.
ServiceState ==
    [file |-> dbFile, cache |-> statementCache, prepares |-> prepareCalls,
     errors |-> errorLog, last |-> lastOp]

\* A catch block that returns undefined instead of throwing the error again.
Caught_Swallow(S, op, sql, error, stmt) ==
    [S EXCEPT !.errors = @ + 1,
        !.last = [op |-> op, sql |-> sql, outcome |-> "returned",
                  value |-> [kind |-> "undefined"], error |-> NoError,
                  stmt |-> stmt]]

\* catch (error) { console.error(..., error); throw error; }
Caught(S, op, sql, error, stmt) ==
    [S EXCEPT !.errors = @ + 1,
        !.last = [op |-> op, sql |-> sql, outcome |-> "threw",
                  value |-> NoValue, error |-> error, stmt |-> stmt]]

\* get(sql, params), all(sql, params) and run(sql, params) of the available
\* service share this body: look the text up in the cache, compile and cache
\* it when it is not there, execute; an error is logged and thrown again.
Call(S, op, sql, params) ==
    LET cached == sql \in DOMAIN S.cache
        prepares == IF cached THEN S.prepares
                    ELSE Prepared(S.prepares, sql, Compiles(sql, S.file))
        serial == Count(prepares, sql)
    IN  IF ~cached /\ ~Compiles(sql, S.file)
        THEN Caught([S EXCEPT !.prepares = prepares], op, sql,
                    [kind |-> "SqliteError"], NoStmt)
        ELSE LET stmt == IF cached THEN S.cache[sql]
                         ELSE [sql |-> sql, serial |-> serial, by |-> op]
                 cache == IF cached THEN S.cache ELSE CacheAfter(S.cache, sql, stmt)
                 ex == Execute(op, sql, Parameters(params), S.file)
                 T == [S EXCEPT !.file = ex.file, !.cache = cache,
                                !.prepares = prepares]
             IN  IF ex.threw
                 THEN Caught(T, op, sql, ex.error, stmt)
                 ELSE [T EXCEPT !.last = [op |-> op, sql |-> sql,
                                          outcome |-> "returned",
                                          value |-> ex.value, error |-> NoError,
                                          stmt |-> stmt]]

\* fn(service): the calls fn makes on the service, in order; a call that
\* throws ends fn with that error.
RECURSIVE RunFn(_, _)
RunFn(S, calls) ==
    IF calls = <<>> THEN S
    ELSE LET c == Head(calls)
             T == Call(S, c.op, c.sql, c.params)
         IN  IF T.last.outcome = "threw" THEN T ELSE RunFn(T, Tail(calls))

\* A transaction that calls fn(service) without nativeDb.transaction():
\* nothing is rolled back.
Transaction_Unwrapped(S, fn) ==
    LET T == RunFn(S, fn.calls)
        failed == T.last.outcome = "threw" \/ fn.throws
    IN  [T EXCEPT
            !.last = [op |-> "transaction", sql |-> "",
                      outcome |-> IF failed THEN "threw" ELSE "returned",
                      value |-> IF failed THEN NoValue ELSE T.last.value,
                      error |-> IF T.last.outcome = "threw" THEN T.last.error
                                ELSE IF fn.throws THEN [kind |-> "Error"]
                                ELSE NoError,
                      stmt |-> NoStmt]]

\* transaction(fn): nativeDb.transaction() runs fn between BEGIN and COMMIT
\* and rolls the file back when fn throws; the error reaches the caller.
Transaction(S, fn) ==
    LET T == RunFn(S, fn.calls)
        failed == T.last.outcome = "threw" \/ fn.throws
    IN  [T EXCEPT
            !.file = IF failed THEN S.file ELSE T.file,
            !.last = [op |-> "transaction", sql |-> "",
                      outcome |-> IF failed THEN "threw" ELSE "returned",
                      value |-> IF failed THEN NoValue ELSE T.last.value,
                      error |-> IF T.last.outcome = "threw" THEN T.last.error
                                ELSE IF fn.throws THEN [kind |-> "Error"]
                                ELSE NoError,
                      stmt |-> NoStmt]]

\* A stub whose message names the DB_CLIENT token instead of the client.
createStubService_Token(client) ==
    [kind |-> "stub", isAvailable |-> FALSE,
     errorMsg |-> [text |-> "SQLite service is not available with ${clientType} client. Use DB service instead.",
                   client |-> OrElse(env.DB_CLIENT, "better-sqlite3")]]

\* createStubService(): errorMsg is the template with clientType filled in.
createStubService(client) ==
    [kind |-> "stub", isAvailable |-> FALSE,
     errorMsg |-> [text |-> "SQLite service is not available with ${clientType} client. Use DB service instead.",
                   client |-> client]]

\* A gate that knows only one of the two names of the embedded engine.
isSQLiteClient_OneName(client) == client = "sqlite3"

\* const isSQLiteClient
isSQLiteClient(client) == client = "better-sqlite3" \/ client = "sqlite3"

NativePragmas ==
    <<"journal_mode = WAL", "synchronous = NORMAL", "foreign_keys = ON",
      "busy_timeout = 5000">>

\* Evaluation of SQLite.ts.  new Database(filename) and the pragmas are not
\* guarded: when the environment makes one of them throw, so does the
\* evaluation of the module.
LoadSQLite ==
    /\ svcModule = "unloaded"
    /\ knexfile' = "loaded"
    /\ DB_CLIENT' = ClientAtImport
    /\ config' = ConfigAtImport
    /\ LET type == OrElse(env.DB_CONNECTION, "development")
           dbConfig == Lookup(ConfigAtImport, type)
           client == ClientOf(dbConfig)
       IN  /\ connectionType' = type
           /\ clientType' = client
           /\ IF isSQLiteClient(client)
              THEN IF dbConfig = Undefined
                      \/ dbConfig.connection.type /= "object"
                      \/ "filename" \notin DOMAIN dbConfig.connection
                   THEN /\ svcModule' = "failed"
                        /\ UNCHANGED <<SQLiteService, nativeDb>>
                   ELSE \E opens \in BOOLEAN :
                        IF opens
                        THEN /\ svcModule' = "loaded"
                             /\ nativeDb' = [open |-> TRUE,
                                             filename |-> dbConfig.connection.filename,
                                             pragmas |-> NativePragmas]
                             /\ SQLiteService' = [kind |-> "sqlite", isAvailable |-> TRUE]
                        ELSE /\ svcModule' = "failed"
                             /\ UNCHANGED <<SQLiteService, nativeDb>>
              ELSE /\ svcModule' = "loaded"
                   /\ SQLiteService' = createStubService(client)
                   /\ UNCHANGED nativeDb
    /\ UNCHANGED <<env, requested, dbVars, dbFile, statementCache, prepareCalls,
                   errorLog, lastOp>>

svcConsts == <<svcModule, connectionType, clientType, SQLiteService, nativeDb>>

\* A call of a stub operation: it throws Error(errorMsg).
StubCall(op) ==
    /\ lastOp' = [op |-> op, sql |-> "", outcome |-> "threw", value |-> NoValue,
                  error |-> [kind |-> "Error", message |-> SQLiteService.errorMsg],
                  stmt |-> NoStmt]
    /\ UNCHANGED <<env, cfgVars, requested, dbVars, svcConsts, dbFile,
                   statementCache, prepareCalls, errorLog>>

Adopt(S) ==
    /\ dbFile' = S.file
    /\ statementCache' = S.cache
    /\ prepareCalls' = S.prepares
    /\ errorLog' = S.errors
    /\ lastOp' = S.last
    /\ UNCHANGED <<env, cfgVars, requested, dbVars, svcConsts>>

\* Every prepare call either caches a statement or logs an error, so this
\* bounds the two logs.
Budget == errorLog + Cardinality(DOMAIN statementCache) < MaxCalls

\* SQLiteService.get / .all / .run
DataCall(op, sql, params) ==
    /\ svcModule = "loaded"
    /\ IF SQLiteService.isAvailable
       THEN Budget /\ Adopt(Call(ServiceState, op, sql, params))
       ELSE StubCall(op)

get(sql, params) == DataCall("get", sql, params)

all(sql, params) == DataCall("all", sql, params)

run(sql, params) == DataCall("run", sql, params)

TxnCalls ==
    {[op |-> "run", sql |-> CreateSql, params |-> [array |-> TRUE, values |-> <<>>]],
     [op |-> "run", sql |-> InsertSql, params |-> [array |-> TRUE, values |-> <<1>>]],
     [op |-> "run", sql |-> InsertSql, params |-> [array |-> TRUE, values |-> <<2>>]],
     [op |-> "all", sql |-> SelectSql, params |-> [array |-> TRUE, values |-> <<>>]]}

TxnFns ==
    [calls : UNION {[1..n -> TxnCalls] : n \in 1..MaxTxnCalls}, throws : BOOLEAN]

\* SQLiteService.transaction(fn)
transaction(fn) ==
    /\ svcModule = "loaded"
    /\ IF SQLiteService.isAvailable
       THEN Budget /\ Adopt(Transaction(ServiceState, fn))
       ELSE StubCall("transaction")

\* SQLiteService.getDatabase()
getDatabase ==
    /\ svcModule = "loaded"
    /\ lastOp' = [op |-> "getDatabase", sql |-> "", outcome |-> "returned",
                  value |-> IF SQLiteService.isAvailable
                            THEN [kind |-> "handle", db |-> nativeDb]
                            ELSE [kind |-> "null"],
                  error |-> NoError, stmt |-> NoStmt]
    /\ UNCHANGED <<env, cfgVars, requested, dbVars, svcConsts, dbFile,
                   statementCache, prepareCalls, errorLog>>

NativeClientTokens == {Unset, "pg", "mysql", "mysql2", "sqlite3", "oracledb"}

NativeStageTokens == {Unset, "development", "test", "staging"}

InitNative ==
    /\ env \in {[NoEnv EXCEPT !.DB_CLIENT = c, !.DB_CONNECTION = s] :
                    c \in NativeClientTokens, s \in NativeStageTokens}
    /\ InitCommon

NextNative ==
    \/ LoadKnexfile
    \/ LoadSQLite
    \/ \E sql \in SqlTexts, params \in ParamInputs : get(sql, params)
    \/ \E sql \in SqlTexts, params \in ParamInputs : all(sql, params)
    \/ \E sql \in SqlTexts, params \in ParamInputs : run(sql, params)
    \/ \E fn \in TxnFns : transaction(fn)
    \/ getDatabase

SpecNative == InitNative /\ [][NextNative]_vars

----------------------------------------------------------------------------
(* Claims about the native service *)

\* The descriptor of the stage the native service takes as active.
ActiveStage == Lookup(config, OrElse(env.DB_CONNECTION, "development"))

\* C8: isAvailable is true exactly when the active stage's client is the
\* embedded engine, for every DB_CLIENT and DB_CONNECTION (unset or naming
\* no stage included); when it is false the exported service is the
\* stub.
C8_AvailableIffEmbedded ==
    svcModule = "loaded" =>
        /\ SQLiteService.isAvailable <=> ClientOf(ActiveStage) \in SQLiteNames
        /\ ~SQLiteService.isAvailable => SQLiteService.kind = "stub"
        /\ SQLiteService.isAvailable => SQLiteService.kind = "sqlite"

C8_Witness ==
    /\ svcModule = "loaded"
    /\ env.DB_CLIENT = "pg" /\ env.DB_CONNECTION = "test"
    /\ SQLiteService.isAvailable
    /\ nativeDb.filename = "./data/test.sqlite3"

StubMessage == "SQLite service is not available with ${clientType} client. Use DB service instead."

\* C9: on the stub every get, all, run and transaction throws an Error whose
\* message names the active stage's client and says to use the DB service;
\* getDatabase() returns null, isAvailable is false, and no database is
\* opened, nothing compiled, nothing logged.
C9_StubRaises ==
    (svcModule = "loaded" /\ ClientOf(ActiveStage) \notin SQLiteNames) =>
        /\ SQLiteService.isAvailable = FALSE
        /\ nativeDb = NoDb
        /\ dbFile = EmptyFile
        /\ DOMAIN statementCache = {}
        /\ DOMAIN prepareCalls = {}
        /\ errorLog = 0
        /\ lastOp.op \in {"get", "all", "run", "transaction"} =>
              /\ lastOp.outcome = "threw"
              /\ lastOp.error.kind = "Error"
              /\ lastOp.error.message.text = StubMessage
              /\ lastOp.error.message.client = ClientOf(ActiveStage)
              /\ ActiveStage /= Undefined =>
                    lastOp.error.message.client \in {"pg", "mysql2"}
        /\ lastOp.op = "getDatabase" => lastOp.value = [kind |-> "null"]

C9_Witness ==
    /\ env.DB_CLIENT = "mysql2" /\ env.DB_CONNECTION = "development"
    /\ lastOp.op = "get" /\ lastOp.outcome = "threw"
    /\ lastOp.error.message.client = "mysql2"

\* C10: get, all and run share one cache keyed by the SQL text: a text whose
\* first compilation succeeded is compiled exactly once, and a call that
\* finds its text in the cache uses the statement compiled by the first
\* call, whichever of the three operations made it.
C10_CompileOncePerText ==
    /\ \A t \in DOMAIN prepareCalls :
          prepareCalls[t].firstOk => prepareCalls[t].calls = 1
    /\ \A t \in DOMAIN statementCache :
          /\ statementCache[t].sql = t
          /\ statementCache[t].serial = prepareCalls[t].calls
    /\ (lastOp.op \in {"get", "all", "run"} /\ lastOp.stmt /= NoStmt) =>
          /\ lastOp.sql \in DOMAIN statementCache
          /\ lastOp.stmt = statementCache[lastOp.sql]

C10_Witness ==
    /\ lastOp.op = "all" /\ lastOp.sql = SelectSql
    /\ lastOp.outcome = "returned"
    /\ lastOp.stmt.by = "get"
    /\ prepareCalls[SelectSql] = [calls |-> 1, firstOk |-> TRUE]

\* The rows the run(INSERT) calls of fn insert, and whether fn creates the
\* table, read off the calls themselves.
InsertedBy(calls) ==
    {calls[i].params.values[1] : i \in {j \in DOMAIN calls : calls[j].sql = InsertSql}}

Creates(calls) == \E i \in DOMAIN calls : calls[i].sql = CreateSql

ValueOf(c, file) ==
    IF c.sql = SelectSql THEN [kind |-> "rows", vs |-> file.rows]
    ELSE IF c.sql = InsertSql
    THEN [kind |-> "info", changes |-> 1, lastInsertRowid |-> c.params.values[1]]
    ELSE [kind |-> "info", changes |-> 0, lastInsertRowid |-> 0]

\* C11: transaction(fn) on the available service is atomic.  When fn raises
\* (itself, or through a call that throws) the call throws and the file is
\* what it was before the call; when fn completes, the file holds every
\* write fn made and the call returns fn's value.
C11_TransactionAtomic ==
    [][\A fn \in TxnFns :
        (svcModule = "loaded" /\ SQLiteService.isAvailable /\ transaction(fn)) =>
            /\ fn.throws => lastOp'.outcome = "threw"
            /\ lastOp'.outcome \in {"threw", "returned"}
            /\ lastOp'.outcome = "threw" =>
                  dbFile' = dbFile /\ lastOp'.error /= NoError
            /\ lastOp'.outcome = "returned" =>
                  /\ dbFile'.rows = dbFile.rows \cup InsertedBy(fn.calls)
                  /\ dbFile'.exists = (dbFile.exists \/ Creates(fn.calls))
                  /\ lastOp'.value = ValueOf(fn.calls[Len(fn.calls)], dbFile')
    ]_vars

\* A rolled-back insert: the INSERT text was compiled and no call ever
\* logged an error, yet the table is empty after fn threw.
C11_Witness ==
    /\ lastOp.op = "transaction" /\ lastOp.outcome = "threw"
    /\ lastOp.error = [kind |-> "Error"]
    /\ InsertSql \in DOMAIN statementCache
    /\ errorLog = 0
    /\ dbFile = [exists |-> TRUE, rows |-> {}]

----------------------------------------------------------------------------
(* Claims about resolution time and instances *)

\* C12 as stated: connection(stage) for the development or production stage
\* opens its instance from a descriptor resolved from the environment of the
\* moment of the call, so a DB_CLIENT changed mid-process is reflected.
C12_ResolvedAtCall ==
    [][\A stage \in EnvStages :
        (connection(stage) /\ lastCall'.outcome = "returned") =>
            instances'[lastCall'.instance].client
                = getClientName(ReadDbClient(env))
    ]_vars

\* C12 as amended: the descriptors are resolved once, when the knexfile is
\* first evaluated, and never again; connection(stage) for the development
\* or production stage opens its instance from that descriptor, whose client
\* is the one of the DB_CLIENT token read at that first evaluation.
C12_ResolvedOnce ==
    [][/\ knexfile = "loaded" => (config' = config /\ DB_CLIENT' = DB_CLIENT)
       /\ \A stage \in EnvStages :
            (connection(stage) /\ lastCall'.outcome = "returned") =>
                /\ instances'[lastCall'.instance].client = getClientName(DB_CLIENT)
                /\ instances'[lastCall'.instance].connection
                      = buildConnectionConfig(DB_CLIENT, NoEnv)
    ]_vars

C12_Witness ==
    /\ DB_CLIENT = "better-sqlite3"
    /\ env.DB_CLIENT = "pg"
    /\ lastCall.op = "connection" /\ lastCall.outcome = "returned"
    /\ lastCall.stage = "development"
    /\ lastCall.instance = Len(instances)
    /\ instances[lastCall.instance].client = "better-sqlite3"

\* C13: every connection(stage) that returns hands back an instance built by
\* that call: it is none of the instances that existed before (the default
\* one and those of earlier calls, also for the same stage), the earlier
\* instances are left as they were, and the exported default stays the same
\* instance.  A call for a stage of the configuration always returns.
C13_FreshInstancePerCall ==
    [][\A stage \in StageNames \cup {"staging"} :
        connection(stage) =>
            /\ stage \in StageNames => lastCall'.outcome = "returned"
            /\ lastCall'.outcome = "returned" =>
                  /\ lastCall'.instance \notin DOMAIN instances
                  /\ lastCall'.instance \in DOMAIN instances'
                  /\ lastCall'.instance /= DB
                  /\ \A i \in DOMAIN instances : instances'[i] = instances[i]
            /\ DB' = DB
    ]_vars

\* Two calls for the same stage after the default instance: three instances
\* with equal descriptors, the last call returning the third.
C13_Witness ==
    /\ Len(instances) = 3
    /\ DB = 1
    /\ lastCall.op = "connection" /\ lastCall.outcome = "returned"
    /\ lastCall.stage = "test" /\ lastCall.instance = 3
    /\ instances[2] = instances[3]
    /\ instances[1] = instances[3]

----------------------------------------------------------------------------
(* Further claims about the resolver *)

\* The integer a pool variable stands for, for the values that are integers.
PoolNumber(text, default) ==
    CASE ~Truthy(text) -> default
      [] text = "2" -> 2
      [] text = "20" -> 20
      [] text = " 7" -> 7

IsPoolNumber(text) == ~Truthy(text) \/ text \in {"2", "20", " 7"}

\* C14: for the pg and mysql2 clients the pool of the development and
\* production stages has min = DB_POOL_MIN (0 when unset), max = DB_POOL_MAX
\* (10 when unset) and both timeouts at 30000 ms, whatever the other
\* variables are.  (min and max are compared where the variable is unset or
\* holds an integer.)
C14_PoolFromEnv ==
    knexfile = "loaded" =>
        \A s \in EnvStages :
            config[s].client \in {"pg", "mysql2"} =>
                /\ "pool" \in DOMAIN config[s]
                /\ IsPoolNumber(env.DB_POOL_MIN) =>
                      config[s].pool.min = Num(PoolNumber(env.DB_POOL_MIN, 0))
                /\ IsPoolNumber(env.DB_POOL_MAX) =>
                      config[s].pool.max = Num(PoolNumber(env.DB_POOL_MAX, 10))
                /\ config[s].pool.acquireTimeoutMillis = 30000
                /\ config[s].pool.idleTimeoutMillis = 30000

C14_Witness ==
    /\ knexfile = "loaded"
    /\ env.DB_CLIENT = "mysql"
    /\ env.DB_POOL_MIN = "2" /\ env.DB_POOL_MAX = "20"
    /\ env.DB_HOST = "db.internal" /\ env.DB_FILENAME = "./data/app.sqlite3"
    /\ requested.stage = "production"
    /\ requested.descriptor.pool.min = Num(2)
    /\ requested.descriptor.pool.max = Num(20)

----------------------------------------------------------------------------
(* Further claims about the two services *)

\* C15: isSQLite() is true exactly when the active stage's client is the
\* embedded engine, for every DB_CLIENT and DB_CONNECTION: it agrees with
\* the native service's isAvailable and with the descriptor's client.
C15_IsSQLiteAgrees ==
    (svcModule = "loaded" /\ connectionType \in StageNames) =>
        /\ isSQLite(DB_CLIENT) <=> ClientOf(ActiveStage) \in SQLiteNames
        /\ isSQLite(DB_CLIENT) <=> SQLiteService.isAvailable

\* C16: the four settings are each best-effort on their own: whenever the
\* pragmas are applied to an instance all four are attempted, also when one
\* of them fails.
C16_EachPragmaAttempted ==
    \A i \in DOMAIN instances :
        instances[i].raws /= <<>> => instances[i].raws = Pragmas

\* The error the engine raises for one call: prepare's when the text is not
\* cached and does not compile, the statement's otherwise.
Raised(op, sql, params, file, cached) ==
    IF ~cached /\ ~Compiles(sql, file) THEN [kind |-> "SqliteError"]
    ELSE Execute(op, sql, Parameters(params), file).error

\* C17: an error raised while compiling or executing in get, all or run is
\* logged once and raised again as the same error after exactly one attempt,
\* and a text whose compilation failed is not added to the statement cache.
C17_LoggedAndRethrown ==
    [][\A op \in {"get", "all", "run"}, sql \in SqlTexts, params \in ParamInputs :
        (svcModule = "loaded" /\ SQLiteService.isAvailable
            /\ DataCall(op, sql, params)) =>
            LET error == Raised(op, sql, params, dbFile, sql \in DOMAIN statementCache)
                attempts == Count(prepareCalls', sql) - Count(prepareCalls, sql)
            IN  /\ attempts = IF sql \in DOMAIN statementCache THEN 0 ELSE 1
                /\ error /= NoError =>
                      /\ lastOp'.outcome = "threw"
                      /\ lastOp'.error = error
                      /\ errorLog' = errorLog + 1
                      /\ dbFile' = dbFile
                /\ error = NoError =>
                      /\ lastOp'.outcome = "returned"
                      /\ errorLog' = errorLog
                /\ sql = BrokenSql =>
                      /\ sql \notin DOMAIN statementCache'
                      /\ attempts = 1
    ]_vars

C17_Witness ==
    /\ lastOp.op = "get" /\ lastOp.sql = BrokenSql
    /\ lastOp.outcome = "threw" /\ lastOp.error = [kind |-> "SqliteError"]
    /\ Count(prepareCalls, BrokenSql) = 2
    /\ errorLog = 2
    /\ statementCache = << >>

----------------------------------------------------------------------------
(* An application that imports both services under one environment *)

InitApp ==
    /\ env \in {[NoEnv EXCEPT !.DB_CLIENT = c, !.DB_CONNECTION = s] :
                    c \in NativeClientTokens, s \in NativeStageTokens}
    /\ InitCommon

NextApp ==
    \/ LoadKnexfile
    \/ LoadDB
    \/ LoadSQLite

SpecApp == InitApp /\ [][NextApp]_vars

\* C18: the native service decides its availability from the descriptor the
\* query-builder opens its default connection from: for every DB_CONNECTION,
\* the unset one included, both select the same stage.
C18_SameStage ==
    (svcModule /= "unloaded" /\ dbModule /= "unloaded") =>
        LET d == Lookup(config, connectionType)
        IN  IF d = Undefined
            THEN dbModule = "failed"
            ELSE /\ dbModule = "loaded"
                 /\ DB \in DOMAIN instances
                 /\ instances[DB].client = d.client
                 /\ instances[DB].connection = d.connection

----------------------------------------------------------------------------
(* The form of a descriptor's connection *)

ParamKeys == {"host", "port", "user", "password", "database"}

IsString(c) == c.type = "string"

HasFile(c) == c.type = "object" /\ "filename" \in DOMAIN c

HasParams(c) == c.type = "object" /\ DOMAIN c \cap ParamKeys /= {}

\* The forms of connection c that are populated.
Forms(c) ==
    {f \in {"string", "file", "params"} :
        \/ f = "string" /\ IsString(c)
        \/ f = "file" /\ HasFile(c)
        \/ f = "params" /\ HasParams(c)}

\* Environments that differ from the empty one in DB_CLIENT and DATABASE_URL.
Probes ==
    {[NoEnv EXCEPT !.DB_CLIENT = c, !.DATABASE_URL = u] :
        c \in ClientTokens, u \in {Unset, "postgres://app@db.example/prod"}}

\* C19: in every descriptor of every stage exactly one of structured
\* parameters, connection string and file path is populated, and which one
\* is determined by the descriptor's client alone: any other environment
\* that resolves to the same client gives the same form.
C19_FormByClient ==
    knexfile = "loaded" =>
        \A s \in StageNames :
            /\ Cardinality(Forms(config[s].connection)) = 1
            /\ \A e \in Probes :
                  getClientName(ReadDbClient(e)) = config[s].client =>
                      Forms(buildConnectionConfig(ReadDbClient(e), e))
                          = Forms(config[s].connection)

\* C19 as the resolver has it: exactly one form is populated; it is the
\* file path exactly for the embedded client, the structured parameters for
\* mysql2, and for pg the connection string when DATABASE_URL was non-empty
\* at resolution and the structured parameters otherwise.
C19_FormByClientAndUrl ==
    knexfile = "loaded" =>
        \A s \in StageNames :
            LET c == config[s].connection
                client == config[s].client
            IN  /\ Cardinality(Forms(c)) = 1
                /\ Forms(c) = {"file"} <=> client = "better-sqlite3"
                /\ client = "mysql2" => Forms(c) = {"params"}
                /\ client = "pg" =>
                      Forms(c) = IF Truthy(env.DATABASE_URL)
                                 THEN {"string"} ELSE {"params"}
                /\ Forms(c) = {"params"} => ParamKeys \subseteq DOMAIN c

C19_Witness ==
    /\ knexfile = "loaded"
    /\ env.DB_CLIENT = "postgresql" /\ env.DATABASE_URL = Unset
    /\ env.DB_HOST = "db.internal"
    /\ requested.stage = "production"
    /\ requested.descriptor.client = "pg"
    /\ Forms(requested.descriptor.connection) = {"params"}
    /\ requested.descriptor.connection.host = "db.internal"

====
